---- MODULE Spec2Model ----
(***************************************************************************)
(* Employee CRUD application (employee/models.py, employee/views.py,       *)
(* employee/urls.py).  The relational table of Employee rows is the only   *)
(* shared state; six views read or write it.                               *)
(*                                                                         *)
(* Text values are sequences of character codes, so that emptiness,        *)
(* length, lexicographic order and date parsing are computed.  A date is   *)
(* the triple <<year, month, day>>.                                        *)
(*                                                                         *)
(* Spec     : every request runs its view to completion (one request at a  *)
(*            time).                                                       *)
(* ConcSpec : two workers; update_employee and delete are split at their   *)
(*            database accesses (SELECT, then UPDATE/INSERT or DELETE),    *)
(*            and the steps of different workers interleave.               *)
(***************************************************************************)
EXTENDS Integers, Sequences, FiniteSets

VARIABLES
    db,       \* table employee_employee: id -> row
    nextId,   \* next value of the AUTOINCREMENT primary key
    pc,       \* per worker: position inside a view ("idle", "save", "delete")
    local,    \* per worker: the view's local variables while it is mid-request
    last,     \* the response most recently returned, with its request
    deleted,  \* history: ids whose delete view has returned its redirect
    served    \* number of requests accepted so far

vars == <<db, nextId, pc, local, last, deleted, served>>

(* ------------------------------ bounds -------------------------------- *)

\* Largest primary key the table hands out.
MaxId == 3

Ids == 1..MaxId

\* Number of requests a run accepts.
MaxRequests == 4

Procs == {"w1", "w2"}

(* --------------------------- models.py -------------------------------- *)

FirstNameMaxLength == 30
LastNameMaxLength == 30
EmailMaxLength == 254
PositionMaxLength == 50

FieldNames == {"first_name", "last_name", "email", "position", "hire_date"}

\* Column width of the three CharFields and of the EmailField.
MaxLength(f) ==
    CASE f = "first_name" -> FirstNameMaxLength
      [] f = "last_name"  -> LastNameMaxLength
      [] f = "email"      -> EmailMaxLength
      [] f = "position"   -> PositionMaxLength

\* Some column of the row is wider than its declared max_length.
TooLong(row) ==
    \E f \in {"first_name", "last_name", "email", "position"} :
        Len(row[f]) > MaxLength(f)

IsDigit(c) == c \in 48..57

AllDigits(s) == \A i \in 1..Len(s) : IsDigit(s[i])

RECURSIVE ToInt(_)
ToInt(s) ==
    IF s = <<>> THEN 0
    ELSE 10 * ToInt(SubSeq(s, 1, Len(s) - 1)) + (s[Len(s)] - 48)

IsLeap(y) == (y % 4 = 0 /\ y % 100 # 0) \/ y % 400 = 0

DaysInMonth(y, m) ==
    IF m = 2 THEN (IF IsLeap(y) THEN 29 ELSE 28)
    ELSE IF m \in {4, 6, 9, 11} THEN 30 ELSE 31

\* DateField.to_python on a string: YYYY-M[M]-D[D] naming a calendar date
\* gives <<date>>; anything else raises ValidationError, here <<>>.
ParseDate(s) ==
    LET cuts == {k \in {7, 8} :
                    /\ Len(s) \in (k + 1)..(k + 2)
                    /\ s[5] = 45
                    /\ s[k] = 45
                    /\ AllDigits(SubSeq(s, 1, 4))
                    /\ AllDigits(SubSeq(s, 6, k - 1))
                    /\ AllDigits(SubSeq(s, k + 1, Len(s)))}
    IN  IF cuts = {} THEN <<>>
        ELSE LET k == CHOOSE c \in cuts : TRUE
                 y == ToInt(SubSeq(s, 1, 4))
                 m == ToInt(SubSeq(s, 6, k - 1))
                 d == ToInt(SubSeq(s, k + 1, Len(s)))
             IN  IF y >= 1 /\ m \in 1..12 /\ d \in 1..DaysInMonth(y, m)
                 THEN << <<y, m, d>> >>
                 ELSE <<>>

RECURSIVE StrLess(_, _)
\* a sorts strictly before b, character by character.
StrLess(a, b) ==
    IF b = <<>> THEN FALSE
    ELSE IF a = <<>> THEN TRUE
    ELSE IF a[1] # b[1] THEN a[1] < b[1]
    ELSE StrLess(Tail(a), Tail(b))

\* Faulty variant: the two ordering keys exchanged (first_name, then last_name).
OrderingByFirstName(r, s) ==
    \/ StrLess(r.first_name, s.first_name)
    \/ /\ r.first_name = s.first_name
       /\ ~StrLess(s.last_name, r.last_name)

\* Meta.ordering = ['last_name', 'first_name']: r may be listed before s.
OrderingLeq(r, s) ==
    \/ StrLess(r.last_name, s.last_name)
    \/ /\ r.last_name = s.last_name
       /\ ~StrLess(s.first_name, r.first_name)

\* A row of the table as the model instance the ORM builds from it.
Instance(d, id) ==
    [id         |-> id,
     first_name |-> d[id].first_name,
     last_name  |-> d[id].last_name,
     email      |-> d[id].email,
     position   |-> d[id].position,
     hire_date  |-> d[id].hire_date]

\* Employee.objects.all(): every row once, in the default ordering; rows
\* with equal keys come in whatever order the database returns them.
AllOrdered(d) ==
    LET n == Cardinality(DOMAIN d)
        perms == {s \in [1..n -> DOMAIN d] :
                     \A i, j \in 1..n : i # j => s[i] # s[j]}
        sorted == {s \in perms :
                     \A i \in 1..(n - 1) : OrderingLeq(d[s[i]], d[s[i + 1]])}
    IN  {[i \in 1..n |-> Instance(d, s[i])] : s \in sorted}

(* ------------------------ request inputs ------------------------------ *)

Al == <<65, 108>>
Bo == <<66, 111>>
Li == <<76, 105>>
Ng == <<78, 103>>
MailA == <<97, 64, 120>>
MailB == <<98, 64, 120>>
MailC == <<99, 64, 120>>
Dev == <<68, 101, 118>>
Ops == <<79, 112, 115>>
Date1975 == <<49, 57, 55, 53, 45, 48, 49, 45, 48, 49>>      \* "1975-01-01"
Date2020 == <<50, 48, 50, 48, 45, 50, 45, 50, 57>>          \* "2020-2-29"
DateFeb30 == <<50, 48, 50, 49, 45, 48, 50, 45, 51, 48>>     \* "2021-02-30"
LongName == [i \in 1..(FirstNameMaxLength + 1) |-> 65]

Form(fn, ln, em, po, hd) ==
    [first_name |-> fn, last_name |-> ln, email |-> em,
     position |-> po, hire_date |-> hd]

\* request.POST of a request that is not a POST: no key at all.
EmptyForm == [k \in {} |-> <<>>]

GoodForms ==
    {Form(Al, Ng, MailA, Dev, Date1975),
     Form(Bo, Li, MailB, Ops, Date2020),
     Form(Bo, Ng, MailA, Ops, Date1975),
     Form(Al, Ng, MailC, Dev, Date2020)}

BadForms ==
    {Form(Al, Li, MailB, Dev, DateFeb30),       \* no such calendar date
     Form(LongName, Li, MailC, Dev, Date1975)}  \* first_name of 31 characters

BlankForms ==
    {[first_name |-> Al, last_name |-> Ng, email |-> MailA,
      hire_date |-> Date1975],                  \* position missing
     Form(Bo, Li, <<>>, Ops, Date2020)}         \* email empty

Forms == GoodForms \cup BadForms \cup BlankForms

Requests ==
    {[method |-> "POST", POST |-> f] : f \in Forms}
        \cup {[method |-> "GET", POST |-> EmptyForm]}

(* ----------------------------- views.py ------------------------------- *)

\* Faulty variant: a test for "is not None", which an empty value passes.
GivenIfPresent(post, k) == k \in DOMAIN post

\* request.POST.get(k): None for a missing key; None and '' are both falsy.
Given(post, k) == k \in DOMAIN post /\ post[k] # <<>>

\* first_name and last_name and email and position and hire_date
AllGiven(post) ==
    /\ Given(post, "first_name")
    /\ Given(post, "last_name")
    /\ Given(post, "email")
    /\ Given(post, "position")
    /\ Given(post, "hire_date")

\* Faulty variant: a missing id yields a blank instance instead of Http404.
GetObjectOrBlank(d, id) ==
    IF id \in DOMAIN d
    THEN << [id |-> id, first_name |-> d[id].first_name,
             last_name |-> d[id].last_name, email |-> d[id].email,
             position |-> d[id].position, hire_date |-> d[id].hire_date] >>
    ELSE << [id |-> id, first_name |-> <<>>, last_name |-> <<>>,
             email |-> <<>>, position |-> <<>>, hire_date |-> <<>>] >>

\* get_object_or_404(Employee, id=id): <<instance>>, or <<>> for Http404.
GetObjectOr404(d, id) ==
    IF id \in DOMAIN d THEN << Instance(d, id) >> ELSE <<>>

\* Faulty variant: position assigned from the wrong local (first_name).
AssignPositionTypo(employee, post) ==
    [id         |-> employee.id,
     first_name |-> post.first_name,
     last_name  |-> post.last_name,
     email      |-> post.email,
     position   |-> post.first_name,
     hire_date  |-> post.hire_date]

\* The five assignments employee.<field> = <submitted value>.
Assign(employee, post) ==
    [id         |-> employee.id,
     first_name |-> post.first_name,
     last_name  |-> post.last_name,
     email      |-> post.email,
     position   |-> post.position,
     hire_date  |-> post.hire_date]

\* Faulty variant: first_name and last_name written to each other's column.
RowOfSwapped(employee, hd) ==
    [first_name |-> employee.last_name,
     last_name  |-> employee.first_name,
     email      |-> employee.email,
     position   |-> employee.position,
     hire_date  |-> hd]

\* The column values written for an instance whose hire_date parsed to hd.
RowOf(employee, hd) ==
    [first_name |-> employee.first_name,
     last_name  |-> employee.last_name,
     email      |-> employee.email,
     position   |-> employee.position,
     hire_date  |-> hd]

\* d with row written under id (a new id extends the table).
Put(d, id, row) ==
    [i \in DOMAIN d \cup {id} |-> IF i = id THEN row ELSE d[i]]

\* Faulty variant: the email column without its unique constraint.
EmailNeverTaken(d, id, email) == FALSE

\* unique=True on email: another row already holds this email.
EmailTaken(d, id, email) ==
    \E j \in DOMAIN d : j # id /\ d[j].email = email

\* Faulty variant: an UPDATE that leaves out the position column
\* (save(update_fields=...) without it); every check as in Write.
WriteKeepingPosition(d, id, row) ==
    LET dup == \E j \in DOMAIN d : j # id /\ d[j].email = row.email
        wide == \E f \in {"first_name", "last_name", "email", "position"} :
                    Len(row[f]) > MaxLength(f)
        refused == (IF dup THEN {"IntegrityError"} ELSE {})
                       \cup (IF wide THEN {"DataError"} ELSE {})
        kept == IF id \in DOMAIN d
                THEN [row EXCEPT !.position = d[id].position]
                ELSE row
    IN  {[db |-> d, exc |-> e] : e \in refused}
            \cup (IF dup THEN {}
                  ELSE {[db |-> [i \in DOMAIN d \cup {id} |->
                                    IF i = id THEN kept ELSE d[i]],
                         exc |-> ""]})

\* One INSERT or UPDATE of the row under id, as the database decides it:
\* a duplicate email is refused (IntegrityError); an over-wide column is
\* refused by backends that enforce the width (DataError) and stored by
\* those that do not.
Write(d, id, row) ==
    LET dup == EmailTaken(d, id, row.email)
        refused == (IF dup THEN {"IntegrityError"} ELSE {})
                       \cup (IF TooLong(row) THEN {"DataError"} ELSE {})
    IN  {[db |-> d, exc |-> e] : e \in refused}
            \cup (IF dup THEN {} ELSE {[db |-> Put(d, id, row), exc |-> ""]})

\* Model.save() of an instance: the field values are prepared
\* (ValidationError for a hire_date that is no date), then UPDATE ... WHERE
\* id = pk and, when that matched no row, INSERT under the same pk.
Save(d, employee) ==
    LET hd == ParseDate(employee.hire_date)
    IN  IF hd = <<>> THEN {[db |-> d, exc |-> "ValidationError"]}
        ELSE Write(d, employee.id, RowOf(employee, hd[1]))

\* Faulty variant: get_or_create on the email; a stored email is no error.
GetOrCreate(d, id, post) ==
    IF \E j \in DOMAIN d : d[j].email = post.email
    THEN {[db |-> d, exc |-> ""]}
    ELSE LET hd == ParseDate(post.hire_date)
         IN  IF hd = <<>> THEN {[db |-> d, exc |-> "ValidationError"]}
             ELSE {[db |-> [i \in DOMAIN d \cup {id} |->
                               IF i = id
                               THEN [first_name |-> post.first_name,
                                     last_name |-> post.last_name,
                                     email |-> post.email,
                                     position |-> post.position,
                                     hire_date |-> hd[1]]
                               ELSE d[i]],
                    exc |-> ""]}

\* Employee.objects.create(...): save(force_insert=True) under a fresh pk.
Create(d, id, post) == Save(d, Assign([id |-> id], post))

\* Faulty variant: the DELETE without its WHERE clause.
DeleteAllRows(d, id) == [i \in {} |-> d[i]]

\* employee.delete(): DELETE ... WHERE id = pk (no row is no error).
DeleteRow(d, id) == [i \in DOMAIN d \ {id} |-> d[i]]

NoRequest == [method |-> "", POST |-> EmptyForm]

GetRequest == [method |-> "GET", POST |-> EmptyForm]

\* What a worker holds between the two database accesses of a view: the
\* instance it fetched and, for update_employee, the instance after the five
\* assignments.
NoLocal == [id |-> 0, fetched |-> <<>>, employee |-> <<>>, request |-> NoRequest]

\* A response, with the request it answers.  raced records how the row
\* stood when a split view wrote: "" as fetched, "overwritten" when another
\* request had changed it since the fetch, "gone" when it had been deleted.
Response(view, id, req, status, template, exc, body, raced) ==
    [view |-> view, id |-> id, request |-> req,
     status |-> status, template |-> template, exc |-> exc, body |-> body,
     raced |-> raced]

Redirect(view, id, req, raced) ==
    Response(view, id, req, 302, "", "", <<>>, raced)

Render(view, id, req, template, body) ==
    Response(view, id, req, 200, template, "", body, "")

NotFound(view, id, req) ==
    Response(view, id, req, 404, "", "Http404", <<>>, "")

ServerError(view, id, req, exc, raced) ==
    Response(view, id, req, 500, "", exc, <<>>, raced)

Raced(d, fetched) ==
    IF fetched.id \notin DOMAIN d THEN "gone"
    ELSE IF Instance(d, fetched.id) # fetched THEN "overwritten"
    ELSE ""

\* Worker p takes the next request.
Accept(p) ==
    /\ pc[p] = "idle"
    /\ served < MaxRequests
    /\ served' = served + 1

Init ==
    /\ db = [i \in {} |-> <<>>]
    /\ nextId = 1
    /\ pc = [p \in Procs |-> "idle"]
    /\ local = [p \in Procs |-> NoLocal]
    /\ last = Response("", 0, NoRequest, 0, "", "", <<>>, "")
    /\ deleted = {}
    /\ served = 0

\* home: GET ''
Home(p) ==
    /\ Accept(p)
    /\ \E employees \in AllOrdered(db) :
           last' = Render("home", 0, GetRequest, "home.html", employees)
    /\ UNCHANGED <<db, nextId, pc, local, deleted>>

\* create_view: GET 'create/'
CreateView(p) ==
    /\ Accept(p)
    /\ last' = Render("create_view", 0, GetRequest, "create.html", <<>>)
    /\ UNCHANGED <<db, nextId, pc, local, deleted>>

\* create_employee: 'create_employee/'.  The INSERT is one database
\* statement, so the view is one step in both specifications.
CreateEmployee(p, req) ==
    /\ Accept(p)
    /\ IF req.method = "POST" /\ AllGiven(req.POST)
       THEN \E o \in Create(db, nextId, req.POST) :
                /\ o.exc = "" => nextId <= MaxId
                /\ db' = o.db
                /\ nextId' = IF o.exc = "" THEN nextId + 1 ELSE nextId
                /\ last' = IF o.exc = ""
                           THEN Redirect("create_employee", 0, req, "")
                           ELSE ServerError("create_employee", 0, req, o.exc, "")
       ELSE /\ last' = Render("create_employee", 0, req, "create.html", <<>>)
            /\ UNCHANGED <<db, nextId>>
    /\ UNCHANGED <<pc, local, deleted>>

\* update_view: GET 'update/<int:id>/'
UpdateView(p, id) ==
    /\ Accept(p)
    /\ LET found == GetObjectOr404(db, id)
       IN  last' = IF found = <<>>
                   THEN NotFound("update_view", id, GetRequest)
                   ELSE Render("update_view", id, GetRequest, "update.html", found)
    /\ UNCHANGED <<db, nextId, pc, local, deleted>>

\* update_employee: 'update_employee/<int:id>/', run to completion.
UpdateEmployee(p, id, req) ==
    /\ Accept(p)
    /\ LET found == GetObjectOr404(db, id)
       IN  IF found = <<>>
           THEN /\ last' = NotFound("update_employee", id, req)
                /\ db' = db
           ELSE IF req.method = "POST" /\ AllGiven(req.POST)
           THEN \E o \in Save(db, Assign(found[1], req.POST)) :
                    /\ db' = o.db
                    /\ last' = IF o.exc = ""
                               THEN Redirect("update_employee", id, req, "")
                               ELSE ServerError("update_employee", id, req, o.exc, "")
           ELSE /\ last' = Render("update_employee", id, req, "update.html", found)
                /\ db' = db
    /\ UNCHANGED <<nextId, pc, local, deleted>>

\* delete: GET 'delete/<int:id>/', run to completion.  The view never looks
\* at the request method.
Delete(p, id, req) ==
    /\ Accept(p)
    /\ LET found == GetObjectOr404(db, id)
       IN  IF found = <<>>
           THEN /\ last' = NotFound("delete", id, req)
                /\ UNCHANGED <<db, deleted>>
           ELSE /\ db' = DeleteRow(db, id)
                /\ deleted' = deleted \cup {id}
                /\ last' = Redirect("delete", id, req, "")
    /\ UNCHANGED <<nextId, pc, local>>

\* update_employee up to its save(): the SELECT of get_object_or_404, the
\* method and field checks, the five assignments.
UpdateLookup(p, id, req) ==
    /\ Accept(p)
    /\ LET found == GetObjectOr404(db, id)
       IN  IF found = <<>>
           THEN /\ last' = NotFound("update_employee", id, req)
                /\ UNCHANGED <<pc, local>>
           ELSE IF req.method = "POST" /\ AllGiven(req.POST)
           THEN /\ pc' = [pc EXCEPT ![p] = "save"]
                /\ local' = [local EXCEPT ![p] =
                                [id |-> id, fetched |-> found,
                                 employee |-> << Assign(found[1], req.POST) >>,
                                 request |-> req]]
                /\ last' = last
           ELSE /\ last' = Render("update_employee", id, req, "update.html", found)
                /\ UNCHANGED <<pc, local>>
    /\ UNCHANGED <<db, nextId, deleted>>

\* update_employee from employee.save() on.
UpdateSave(p) ==
    /\ pc[p] = "save"
    /\ \E o \in Save(db, local[p].employee[1]) :
           /\ db' = o.db
           /\ last' = IF o.exc = ""
                      THEN Redirect("update_employee", local[p].id,
                                    local[p].request, Raced(db, local[p].fetched[1]))
                      ELSE ServerError("update_employee", local[p].id,
                                       local[p].request, o.exc,
                                       Raced(db, local[p].fetched[1]))
    /\ pc' = [pc EXCEPT ![p] = "idle"]
    /\ local' = [local EXCEPT ![p] = NoLocal]
    /\ UNCHANGED <<nextId, deleted, served>>

\* delete up to employee.delete(): the SELECT of get_object_or_404.
DeleteLookup(p, id, req) ==
    /\ Accept(p)
    /\ LET found == GetObjectOr404(db, id)
       IN  IF found = <<>>
           THEN /\ last' = NotFound("delete", id, req)
                /\ UNCHANGED <<pc, local>>
           ELSE /\ pc' = [pc EXCEPT ![p] = "delete"]
                /\ local' = [local EXCEPT ![p] =
                                [id |-> id, fetched |-> found,
                                 employee |-> <<>>, request |-> req]]
                /\ last' = last
    /\ UNCHANGED <<db, nextId, deleted>>

\* delete from employee.delete() on.
DeleteRemove(p) ==
    /\ pc[p] = "delete"
    /\ db' = DeleteRow(db, local[p].id)
    /\ deleted' = deleted \cup {local[p].id}
    /\ last' = Redirect("delete", local[p].id, local[p].request,
                        Raced(db, local[p].fetched[1]))
    /\ pc' = [pc EXCEPT ![p] = "idle"]
    /\ local' = [local EXCEPT ![p] = NoLocal]
    /\ UNCHANGED <<nextId, served>>

\* One request at a time, each view run to completion.
Worker == CHOOSE p \in Procs : TRUE

Next ==
    \/ Home(Worker)
    \/ CreateView(Worker)
    \/ \E req \in Requests : CreateEmployee(Worker, req)
    \/ \E id \in Ids : UpdateView(Worker, id)
    \/ \E id \in Ids, req \in Requests : UpdateEmployee(Worker, id, req)
    \/ \E id \in Ids, req \in Requests : Delete(Worker, id, req)

Spec == Init /\ [][Next]_vars

\* Requests served by concurrent workers.
ConcNext ==
    \/ \E p \in Procs : Home(p)
    \/ \E p \in Procs : CreateView(p)
    \/ \E p \in Procs, req \in Requests : CreateEmployee(p, req)
    \/ \E p \in Procs, id \in Ids : UpdateView(p, id)
    \/ \E p \in Procs, id \in Ids, req \in Requests : UpdateLookup(p, id, req)
    \/ \E p \in Procs : UpdateSave(p)
    \/ \E p \in Procs, id \in Ids : DeleteLookup(p, id, GetRequest)
    \/ \E p \in Procs : DeleteRemove(p)

ConcSpec == Init /\ [][ConcNext]_vars

(* ------------------------------ claims -------------------------------- *)

\* A step that takes a request and answers it; last' is the response.
Served == served' = served + 1 /\ pc' = pc

\* Each of the five fields is submitted with a non-empty value.
Complete(post) ==
    \A f \in FieldNames : f \in DOMAIN post /\ Len(post[f]) > 0

\* The row holds the five submitted values (hire_date as the date named).
HoldsValues(row, post) ==
    /\ row.first_name = post.first_name
    /\ row.last_name = post.last_name
    /\ row.email = post.email
    /\ row.position = post.position
    /\ << row.hire_date >> = ParseDate(post.hire_date)

\* Every row of the table before the step is still there, unchanged.
OthersUnchanged(id) ==
    \A j \in DOMAIN db \ {id} : j \in DOMAIN db' /\ db'[j] = db[j]

EmailStored(email) == \E j \in DOMAIN db : db[j].email = email

\* The submission meets what the columns accept: a calendar date, and no
\* text wider than its column.
Storable(post) ==
    /\ ParseDate(post.hire_date) # <<>>
    /\ Len(post.first_name) <= FirstNameMaxLength
    /\ Len(post.last_name) <= LastNameMaxLength
    /\ Len(post.email) <= EmailMaxLength
    /\ Len(post.position) <= PositionMaxLength

CreateSubmitted ==
    /\ Served
    /\ last'.view = "create_employee"
    /\ last'.request.method = "POST"
    /\ Complete(last'.request.POST)

\* The step inserted exactly one row, holding the submission, under an id
\* no other row has; the rest of the table is as before; redirect.
Inserted ==
    /\ last'.status = 302
    /\ \E id \in DOMAIN db' \ DOMAIN db :
           /\ DOMAIN db' = DOMAIN db \cup {id}
           /\ HoldsValues(db'[id], last'.request.POST)
    /\ Cardinality(DOMAIN db') = Cardinality(DOMAIN db) + 1
    /\ OthersUnchanged(0)

\* C1 as stated: every create submission with five non-empty fields and an
\* email no stored record holds inserts exactly one row with the submitted
\* values under a fresh id, changes no other row, and redirects.
C1_AsStated ==
    [][(CreateSubmitted /\ ~EmailStored(last'.request.POST.email)) => Inserted]_vars

\* C1 amended: the same, for submissions whose hire_date names a calendar
\* date and whose texts fit their columns.
C1_CreateInserts ==
    [][(/\ CreateSubmitted
        /\ ~EmailStored(last'.request.POST.email)
        /\ Storable(last'.request.POST)) => Inserted]_vars

\* A create was answered by a redirect, its row is stored beside an older
\* row, and its hire_date was not written in canonical form.
C1_Witness ==
    /\ last.view = "create_employee"
    /\ last.status = 302
    /\ last.request.POST.hire_date = Date2020
    /\ Cardinality(DOMAIN db) >= 2
    /\ \E id \in DOMAIN db : HoldsValues(db[id], last.request.POST)

UpdateSubmitted ==
    /\ Served
    /\ last'.view = "update_employee"
    /\ last'.id \in DOMAIN db
    /\ last'.request.method = "POST"
    /\ Complete(last'.request.POST)

\* The step rewrote the addressed row to the submission and nothing else.
Updated ==
    /\ last'.status = 302
    /\ DOMAIN db' = DOMAIN db
    /\ HoldsValues(db'[last'.id], last'.request.POST)
    /\ OthersUnchanged(last'.id)

\* C3 as stated: every update submission with five non-empty fields on an
\* existing id leaves that record holding the submitted values, under the
\* same id, with every other record and the record count unchanged, and
\* redirects.
C3_AsStated == [][UpdateSubmitted => Updated]_vars

\* C3 amended: the same, for submissions whose email no other record holds,
\* whose hire_date names a calendar date and whose texts fit their columns.
C3_UpdateOverwrites ==
    [][(/\ UpdateSubmitted
        /\ ~EmailTaken(db, last'.id, last'.request.POST.email)
        /\ Storable(last'.request.POST)) => Updated]_vars

\* An update was answered by a redirect; the record holds the submission,
\* beside another record.
C3_Witness ==
    /\ last.view = "update_employee"
    /\ last.status = 302
    /\ last.id \in DOMAIN db
    /\ HoldsValues(db[last.id], last.request.POST)
    /\ Cardinality(DOMAIN db) >= 2

Rejected(view) ==
    /\ Served
    /\ last'.view = view
    /\ (last'.request.method # "POST" \/ ~Complete(last'.request.POST))

\* The rendered form shows exactly the stored record id.
ShowsStored(body, d, id) ==
    /\ Len(body) = 1
    /\ body[1].id = id
    /\ body[1].first_name = d[id].first_name
    /\ body[1].last_name = d[id].last_name
    /\ body[1].email = d[id].email
    /\ body[1].position = d[id].position
    /\ body[1].hire_date = d[id].hire_date

\* C4: a create submission, or an update submission on an existing id, that
\* is not a POST or lacks a non-empty value for one of the five fields
\* changes nothing in the store and is answered 200 with the form: the empty
\* create form, or the update form showing the stored record.
C4_RejectedUnchanged ==
    [][/\ Rejected("create_employee") =>
              /\ db' = db
              /\ nextId' = nextId
              /\ last'.status = 200
              /\ last'.template = "create.html"
              /\ last'.body = <<>>
       /\ (Rejected("update_employee") /\ last'.id \in DOMAIN db) =>
              /\ db' = db
              /\ nextId' = nextId
              /\ last'.status = 200
              /\ last'.template = "update.html"
              /\ ShowsStored(last'.body, db, last'.id)]_vars

\* A POST to update_employee with an empty field was answered with the form,
\* which shows the stored email and not the empty one submitted.
C4_Witness ==
    /\ last.view = "update_employee"
    /\ last.status = 200
    /\ last.request.method = "POST"
    /\ "email" \in DOMAIN last.request.POST
    /\ last.request.POST.email = <<>>
    /\ ShowsStored(last.body, db, last.id)

\* C5: update_view, update_employee and delete answer 404 for an id that no
\* stored record has, and leave the store unchanged, whatever the method and
\* the submitted fields.
C5_NotFound ==
    [][(/\ Served
        /\ last'.view \in {"update_view", "update_employee", "delete"}
        /\ last'.id \notin DOMAIN db)
           => (last'.status = 404 /\ db' = db /\ nextId' = nextId)]_vars

\* A complete, storable update submission for an absent id was answered 404
\* while other records exist.
C5_Witness ==
    /\ last.view = "update_employee"
    /\ last.status = 404
    /\ last.request.method = "POST"
    /\ Complete(last.request.POST)
    /\ last.id \notin DOMAIN db
    /\ DOMAIN db # {}

\* C6: deleting an existing id removes exactly that record and redirects;
\* from then on the id is absent from the store and from every listing, and
\* update_view, update_employee and a further delete of it answer 404 and
\* change nothing.
C6_DeleteRemoves ==
    [][/\ (Served /\ last'.view = "delete" /\ last'.id \in DOMAIN db) =>
              /\ last'.status = 302
              /\ DOMAIN db' = DOMAIN db \ {last'.id}
              /\ OthersUnchanged(last'.id)
              /\ last'.id \in deleted'
       /\ \A i \in deleted' : i \notin DOMAIN db'
       /\ (/\ Served
           /\ last'.view \in {"update_view", "update_employee", "delete"}
           /\ last'.id \in deleted) => (last'.status = 404 /\ db' = db)
       /\ (Served /\ last'.view = "home") =>
              \A k \in 1..Len(last'.body) : last'.body[k].id \notin deleted]_vars

\* A second delete of a deleted id was answered 404, with another record
\* still stored.
C6_Witness ==
    /\ last.view = "delete"
    /\ last.status = 404
    /\ last.id \in deleted
    /\ DOMAIN db # {}

\* C7: a create submission with five non-empty fields whose email a stored
\* record already holds inserts nothing, leaves the store unchanged and ends
\* in a server error, neither the redirect nor the form.
C7_DuplicateEmailFails ==
    [][(CreateSubmitted /\ EmailStored(last'.request.POST.email))
           => (db' = db /\ last'.status = 500 /\ last'.template = "")]_vars

\* A create with a stored email, otherwise different from the stored record,
\* was answered 500 by the uniqueness constraint.
C7_Witness ==
    /\ last.view = "create_employee"
    /\ last.status = 500
    /\ last.exc = "IntegrityError"
    /\ \E j \in DOMAIN db :
           /\ db[j].email = last.request.POST.email
           /\ db[j].first_name # last.request.POST.first_name

\* a is b or comes before b in code-point order.
Precedes(a, b) ==
    \/ a = b
    \/ \E k \in 1..(Len(b)) :
           /\ \A i \in 1..(k - 1) : i <= Len(a) /\ a[i] = b[i]
           /\ (k > Len(a) \/ a[k] < b[k])
           /\ k - 1 <= Len(a)

\* C8: the listing returns every stored record exactly once, ascending by
\* last_name and, for equal last_name, ascending by first_name, and leaves
\* the store unchanged.
C8_ListingOrdered ==
    [][(Served /\ last'.view = "home") =>
           LET b == last'.body
           IN  /\ db' = db
               /\ Len(b) = Cardinality(DOMAIN db)
               /\ \A id \in DOMAIN db :
                      \E k \in 1..Len(b) : ShowsStored(<< b[k] >>, db, id)
               /\ \A k, l \in 1..Len(b) :
                      k < l =>
                          /\ Precedes(b[k].last_name, b[l].last_name)
                          /\ b[k].last_name = b[l].last_name
                                 => Precedes(b[k].first_name, b[l].first_name)]_vars

\* A listing of three records, created in an order that is not the listing
\* order, two of them with the same last_name.
C8_Witness ==
    /\ last.view = "home"
    /\ Len(last.body) = 3
    /\ last.body[1].last_name # last.body[2].last_name
    /\ last.body[2].last_name = last.body[3].last_name
    /\ last.body[2].first_name # last.body[3].first_name
    /\ last.body[2].id > last.body[3].id

UniqueEmail ==
    \A i, j \in DOMAIN db : i # j => db[i].email # db[j].email

\* C2: under every interleaving of requests no two stored records have the
\* same email, and a create whose email is stored when its INSERT runs (as
\* for the second of two concurrent creates with one email) inserts nothing
\* and fails in the database.
C2_EmailUnique ==
    /\ []UniqueEmail
    /\ [][(CreateSubmitted /\ EmailStored(last'.request.POST.email))
              => (db' = db /\ last'.status = 500)]_vars

\* Two requests were served, both creates with one email: one row is
\* stored and the second create failed on the uniqueness constraint.
C2_Witness ==
    /\ served = 2
    /\ last.view = "create_employee"
    /\ last.exc = "IntegrityError"
    /\ Cardinality(DOMAIN db) = 1
    /\ EmailStored(last.request.POST.email)

\* Worker p runs employee.save() of update_employee in this step.
SaveStep(p) == pc[p] = "save" /\ pc'[p] = "idle"

\* C9: whenever an update's save succeeds, however its lookup and save
\* interleave with another update of the same record, the record then holds
\* all five values of that submission (the last save wins, no mixture), no
\* other record changes, and if the record was present no record is added
\* or removed.
C9_LastWriteWins ==
    [][\A p \in Procs :
           (SaveStep(p) /\ last'.status = 302) =>
               /\ local[p].id \in DOMAIN db'
               /\ HoldsValues(db'[local[p].id], local[p].request.POST)
               /\ OthersUnchanged(local[p].id)
               /\ local[p].id \in DOMAIN db => DOMAIN db' = DOMAIN db]_vars

\* Three requests were served, a create and two updates of its record; the
\* second save went over what the first had written after the second's
\* lookup, and the record holds the second submission.
C9_Witness ==
    /\ last.view = "update_employee"
    /\ last.status = 302
    /\ last.raced = "overwritten"
    /\ served = 3
    /\ last.id \in DOMAIN db
    /\ HoldsValues(db[last.id], last.request.POST)

\* C10 as stated: once a delete of an id has completed, no record with that
\* id is in the store in any later state, under every interleaving.
C10_DeletionPermanent == \A i \in deleted : i \notin DOMAIN db

====
